---- MODULE Spec2Model ----
(***************************************************************************)
(* State-machine model of pyemap.graph_mining.frequent_subgraph:           *)
(* SubgraphPattern (find_protein_subgraphs, set_clustering, the per-host   *)
(* search with its degree-dict deduplication, the pairwise clustering) and *)
(* the ordering of SubgraphPattern objects.                                *)
(*                                                                         *)
(* Conventions.                                                            *)
(*  - A residue (graph node) is named by its residue number, the key the   *)
(*    source sorts nodes by (full_id[3][1]).                               *)
(*  - A Python dict with keys 1..k is a TLA+ sequence; {} is << >>.        *)
(*  - RMSD values are integers in tenths of the coordinate unit; Inf is    *)
(*    float("inf").                                                        *)
(*  - An attribute that has not been assigned yet has the value Unset.     *)
(***************************************************************************)
EXTENDS Integers, Sequences, FiniteSets, TLC

VARIABLES
    support,             \* self.support: pdb_id -> host structure (emap object)
    G,                   \* self.G: the pattern graph
    GM,                  \* what the graph matcher and the superimposer return
                         \* for two occurrence graphs (external collaborators)
    total_support,       \* self.total_support
    protein_subgraphs,   \* self.protein_subgraphs
    groups,              \* self.groups
    clustering_option,   \* self.clustering_option
    _structural_groups,  \* self._structural_groups
    _sequence_groups,    \* self._sequence_groups
    all_graphs,          \* find_protein_subgraphs' local list, as last built
    G_seq,               \* _do_clustering's local graph G_seq (its edges)
    G_struct,            \* _do_clustering's local graph G_struct (its edges)
    call,                \* the last public call: its name, argument, matcher order
    raised,              \* the exception the last call raised, or NoError
    repeated,            \* history: the last call was find_protein_subgraphs and
                         \* so was the call before it, with the same option and
                         \* the same matcher order
    patterns,            \* SubgraphPattern objects under comparison
    seq_dist_calls       \* the calls of _subgraph_seq_dist made on their own: the
                         \* arguments of each with what it returned or raised

vars == <<support, G, GM, total_support, protein_subgraphs, groups,
          clustering_option, _structural_groups, _sequence_groups,
          all_graphs, G_seq, G_struct, call, raised, repeated, patterns,
          seq_dist_calls>>

(***************************************************************************)
(* Bounds of the model.                                                    *)
(***************************************************************************)
MaxPos == 2         \* aligned residue numbers range over 0..MaxPos
MaxWeight == 2      \* edge weights range over 1..MaxWeight

(***************************************************************************)
(* Values.                                                                 *)
(***************************************************************************)
Unset == "<unset>"           \* an attribute no call has assigned yet
UnsetGroups == <<<<Unset>>>> \* the same, for an attribute holding a grouping
NoError == "none"
Inf == 1000                  \* float("inf"): above every finite RMSD of the model
NotAligned == -1             \* the aligned_resnum "X" of a residue outside the alignment
Options == {"structural", "sequence", "other"}   \* arguments a caller may pass

(***************************************************************************)
(* Generic helpers.                                                        *)
(***************************************************************************)
Digit(d) ==
    CASE d = 0 -> "0" [] d = 1 -> "1" [] d = 2 -> "2" [] d = 3 -> "3"
      [] d = 4 -> "4" [] d = 5 -> "5" [] d = 6 -> "6" [] d = 7 -> "7"
      [] d = 8 -> "8" [] d = 9 -> "9"

RECURSIVE str(_)
\* Python's str() of a non-negative int: its decimal digits.
str(n) == IF n < 10 THEN Digit(n) ELSE str(n \div 10) \o Digit(n % 10)

Abs(x) == IF x < 0 THEN -x ELSE x

Range(s) == {s[i] : i \in DOMAIN s}

\* numpy.min of a non-empty list of numbers.
Min(S) == CHOOSE x \in S : \A y \in S : x <= y

RECURSIVE Perms(_)
\* All orders in which the elements of S can be listed.
Perms(S) ==
    IF S = {} THEN {<< >>}
    ELSE UNION {{<<x>> \o p : p \in Perms(S \ {x})} : x \in S}

RECURSIVE SortedNodes(_)
\* sorted(nodes, key=resnum): a node is named by its residue number.
SortedNodes(S) ==
    IF S = {} THEN << >>
    ELSE LET m == Min(S) IN <<m>> \o SortedNodes(S \ {m})

(***************************************************************************)
(* Graphs.  A host structure h (an emap object with its init_graph):       *)
(*   h.pdb_id, h.num_label[n], h.aligned[n] (aligned_residue_number),       *)
(*   h.atoms[n] (the residue's atom ids, in order), h.weight[e] for every  *)
(*   edge e = {u, v} of init_graph.                                        *)
(* The pattern graph g: g.num_label[a] for its nodes a \in 1..k, g.edges.  *)
(***************************************************************************)
HostNodes(h) == DOMAIN h.num_label
HostEdges(h) == DOMAIN h.weight

\* get_graph_matcher(init_graph, G).subgraph_monomorphisms_iter(): the dicts
\* host node -> pattern node under which every pattern edge lies on a host edge
\* and the node labels agree.  The order of emission is the caller's input.
Monomorphisms(h, g) ==
    LET emb == {e \in [DOMAIN g.num_label -> HostNodes(h)] :
                   /\ \A a, b \in DOMAIN e : a # b => e[a] # e[b]
                   /\ \A a \in DOMAIN e : h.num_label[e[a]] = g.num_label[a]
                   /\ \A pe \in g.edges : {e[a] : a \in pe} \in HostEdges(h)}
    IN {[n \in Range(e) |-> CHOOSE a \in DOMAIN e : e[a] = n] : e \in emb}

\* _generate_protein_subgraph: the pattern relabelled to the host's nodes, nodes
\* in ascending residue number, node and edge attributes taken from the host.
_generate_protein_subgraph(mapping, h, g) ==
    LET inv == [a \in Range(mapping) |-> CHOOSE n \in DOMAIN mapping : mapping[n] = a]
        es == {{inv[a] : a \in pe} : pe \in g.edges}
    IN [pdb_id |-> h.pdb_id,
        id |-> Unset,
        nodes |-> SortedNodes(Range(inv)),
        num_label |-> [n \in Range(inv) |-> h.num_label[n]],
        aligned_resnum |-> [n \in Range(inv) |-> h.aligned[n]],
        edges |-> [e \in es |-> h.weight[e]]]

\* dict(sg.degree)
degree_dict(sg) ==
    [n \in Range(sg.nodes) |-> Cardinality({e \in DOMAIN sg.edges : n \in e})]

RECURSIVE SumWeights(_, _)
SumWeights(w, S) ==
    IF S = {} THEN 0
    ELSE LET e == CHOOSE x \in S : TRUE IN w[e] + SumWeights(w, S \ {e})

\* sg.size(weight="weight"): the sum of the edge weights.
size(sg) == SumWeights(sg.edges, DOMAIN sg.edges)

RECURSIVE _find_loop_keep_last(_, _, _)
\* Mutant of _find_loop: an occurrence with a degree dict already seen replaces
\* the one kept before.
_find_loop_keep_last(h, g, emitted) ==
    IF emitted = << >> THEN [sgs |-> << >>, degree_dicts |-> << >>]
    ELSE LET acc == _find_loop_keep_last(h, g, SubSeq(emitted, 1, Len(emitted) - 1))
             sg == _generate_protein_subgraph(emitted[Len(emitted)], h, g)
             dd == degree_dict(sg)
             others == SelectSeq(acc.sgs, LAMBDA x : degree_dict(x) # dd)
         IN [sgs |-> Append(others, sg),
             degree_dicts |-> Append(SelectSeq(acc.degree_dicts, LAMBDA d : d # dd), dd)]

RECURSIVE _find_loop(_, _, _)
\* The loop of _find_subgraph_in_pdb over the mappings in the order emitted:
\* an occurrence is kept when its degree dict is not among those already kept.
_find_loop(h, g, emitted) ==
    IF emitted = << >> THEN [sgs |-> << >>, degree_dicts |-> << >>]
    ELSE LET acc == _find_loop(h, g, SubSeq(emitted, 1, Len(emitted) - 1))
             sg == _generate_protein_subgraph(emitted[Len(emitted)], h, g)
             dd == degree_dict(sg)
         IN IF dd \notin Range(acc.degree_dicts)
            THEN [sgs |-> Append(acc.sgs, sg),
                  degree_dicts |-> Append(acc.degree_dicts, dd)]
            ELSE acc

\* _find_subgraph_in_pdb: the occurrences returned for one host.
_find_subgraph_in_pdb(h, g, emitted) == _find_loop(h, g, emitted).sgs

\* Mutant of _find_total_support: the count is taken of the mappings, not of sgs.
_find_total_support_all(h, g, emitted) == Len(emitted)

\* self.total_support[pdb_id] as _find_subgraph_in_pdb leaves it.
_find_total_support(h, g, emitted) == Len(_find_loop(h, g, emitted).sgs)

\* Mutant of sort_by_size: the list is left in pool order.
sort_forgotten(s) == s

RECURSIVE sort_by_size(_)
\* all_graphs.sort(key=lambda x: x.size(weight="weight")): stable, ascending.
sort_by_size(s) ==
    IF s = << >> THEN << >>
    ELSE LET rest == sort_by_size(SubSeq(s, 1, Len(s) - 1))
             x == s[Len(s)]
             n == Cardinality({i \in DOMAIN rest : size(rest[i]) <= size(x)})
         IN SubSeq(rest, 1, n) \o <<x>> \o SubSeq(rest, n + 1, Len(rest))

\* unique_id = graph.graph['pdb_id'] + "_" + str(i + 1), i the 0-based index.
unique_id(sg, i) == sg.pdb_id \o "_" \o str(i + 1)

(***************************************************************************)
(* Pairwise comparison of two occurrences.                                 *)
(*                                                                         *)
(* GM[<<Key(sg1), Key(sg2)>>] is what the external collaborators return    *)
(* for the pair: a function from the mappings the matcher finds between    *)
(* sg1 and sg2 to the RMSD the superimposer computes under that mapping.   *)
(* A mapping is given by positions: p maps sg1.nodes[q] to sg2.nodes[p[q]].*)
(***************************************************************************)
Key(sg) == <<sg.pdb_id, sg.nodes>>

\* self.support[pdb_id]
Host(pdb_id) == CHOOSE h \in Range(support) : h.pdb_id = pdb_id

\* The dict sg1 node -> sg2 node of the mapping with positions p.
MappingDict(sg1, sg2, p) ==
    [n \in Range(sg1.nodes) |->
        sg2.nodes[p[CHOOSE q \in DOMAIN sg1.nodes : sg1.nodes[q] = n]]]

\* get_graph_matcher(sg1, sg2).subgraph_isomorphisms_iter(), as positions.
subgraph_isomorphisms(sg1, sg2) == DOMAIN GM[<<Key(sg1), Key(sg2)>>]

\* Whether _subgraph_seq_dist raises: a node of sg1 is aligned and its image in
\* sg2 is not, so that an int and the str "X" are subtracted (TypeError).
_seq_dist_raises(sg1, sg2, mapping) ==
    \E key \in DOMAIN mapping :
        /\ sg1.aligned_resnum[key] # NotAligned
        /\ sg2.aligned_resnum[mapping[key]] = NotAligned

RECURSIVE _seq_dist_sum(_, _, _, _)
_seq_dist_sum(sg1, sg2, mapping, keys) ==
    IF keys = {} THEN 0
    ELSE LET key == CHOOSE x \in keys : TRUE
             rest == _seq_dist_sum(sg1, sg2, mapping, keys \ {key})
         IN IF sg1.aligned_resnum[key] # NotAligned
            THEN rest + Abs(sg1.aligned_resnum[key] - sg2.aligned_resnum[mapping[key]])
            ELSE rest

\* _subgraph_seq_dist, where it returns.
_subgraph_seq_dist(sg1, sg2, mapping) ==
    _seq_dist_sum(sg1, sg2, mapping, DOMAIN mapping)

\* The atom id _subgraph_rmsd takes the coordinates of, for residues with the
\* atom lists atoms1 and atoms2: CA when both have it, else the first atom of
\* res1 that res2 has too, else none (Unset).
shared_id(atoms1, atoms2) ==
    IF "CA" \in Range(atoms1) /\ "CA" \in Range(atoms2) THEN "CA"
    ELSE IF \E i \in DOMAIN atoms1 : atoms1[i] \in Range(atoms2)
         THEN atoms1[Min({i \in DOMAIN atoms1 : atoms1[i] \in Range(atoms2)})]
         ELSE Unset

\* _subgraph_rmsd: inf when a matched pair of residues shares no atom or fewer
\* than two coordinates are collected, else the superimposer's RMS.
_subgraph_rmsd(sg1, sg2, p) ==
    LET mapping == MappingDict(sg1, sg2, p)
        emap1 == Host(sg1.pdb_id)
        emap2 == Host(sg2.pdb_id)
    IN IF \E key \in DOMAIN mapping :
              shared_id(emap1.atoms[key], emap2.atoms[mapping[key]]) = Unset
       THEN Inf
       ELSE IF Cardinality(DOMAIN mapping) >= 2
            THEN GM[<<Key(sg1), Key(sg2)>>][p]
            ELSE Inf

\* The sequence distances and RMSDs _do_clustering collects for one pair.
seq_dists(sg1, sg2) ==
    {_subgraph_seq_dist(sg1, sg2, MappingDict(sg1, sg2, p)) :
        p \in subgraph_isomorphisms(sg1, sg2)}

rmsds(sg1, sg2) ==
    {_subgraph_rmsd(sg1, sg2, p) : p \in subgraph_isomorphisms(sg1, sg2)}

\* The exception the body of _do_clustering's loop raises for one pair: TypeError
\* from _subgraph_seq_dist inside the loop over the mappings, ValueError from
\* numpy.min of an empty list after it.
pair_error(sg1, sg2) ==
    IF \E p \in subgraph_isomorphisms(sg1, sg2) :
           _seq_dist_raises(sg1, sg2, MappingDict(sg1, sg2, p))
    THEN "TypeError"
    ELSE IF subgraph_isomorphisms(sg1, sg2) = {} THEN "ValueError"
    ELSE NoError

(***************************************************************************)
(* Clustering.                                                             *)
(***************************************************************************)
RmsdThreshold == 5           \* rmsd <= 0.5, in tenths

\* The pairs (i, j), i < j, of range(num_graphs), in the order of the two loops.
PairSeq(n) ==
    LET S == {pr \in (0 .. n - 1) \X (0 .. n - 1) : pr[1] < pr[2]}
        before(pr) == {q \in S : q[1] < pr[1] \/ (q[1] = pr[1] /\ q[2] < pr[2])}
    IN [r \in 1 .. Cardinality(S) |-> CHOOSE pr \in S : Cardinality(before(pr)) = r - 1]

\* if seq_dist < num_nodes: G_seq.add_edge(i, j)
seq_edge(sg1, sg2, num_nodes) == Min(seq_dists(sg1, sg2)) < num_nodes

\* Mutant of struct_edge: the threshold is exclusive.
struct_edge_strict(sg1, sg2) == Min(rmsds(sg1, sg2)) < RmsdThreshold

\* if rmsd <= 0.5: G_struct.add_edge(i, j)
struct_edge(sg1, sg2) == Min(rmsds(sg1, sg2)) <= RmsdThreshold

RECURSIVE _plain_bfs(_, _)
\* The nodes reachable from the set S over the edges E.
_plain_bfs(E, S) ==
    LET T == S \cup UNION {e \in E : e \cap S # {}}
    IN IF T = S THEN S ELSE _plain_bfs(E, T)

RECURSIVE cc_from(_, _, _, _)
\* nx.connected_components: for v in 0..n-1, the component of each v not seen yet.
cc_from(v, n, E, seen) ==
    IF v >= n THEN << >>
    ELSE IF v \in seen THEN cc_from(v + 1, n, E, seen)
    ELSE LET c == _plain_bfs(E, {v})
         IN <<c>> \o cc_from(v + 1, n, E, seen \cup c)

connected_components(n, E) == cc_from(0, n, E, {})

RECURSIVE sorted_by_len_ascending(_)
\* Mutant of sorted_by_len_reverse: reverse=True forgotten.
sorted_by_len_ascending(s) ==
    IF s = << >> THEN << >>
    ELSE LET rest == sorted_by_len_ascending(SubSeq(s, 1, Len(s) - 1))
             x == s[Len(s)]
             n == Cardinality({i \in DOMAIN rest :
                                  Cardinality(rest[i]) <= Cardinality(x)})
         IN SubSeq(rest, 1, n) \o <<x>> \o SubSeq(rest, n + 1, Len(rest))

RECURSIVE sorted_by_len_reverse(_)
\* sorted(cc, key=len, reverse=True): stable, so equal sizes keep their order.
sorted_by_len_reverse(s) ==
    IF s = << >> THEN << >>
    ELSE LET rest == sorted_by_len_reverse(SubSeq(s, 1, Len(s) - 1))
             x == s[Len(s)]
             n == Cardinality({i \in DOMAIN rest :
                                  Cardinality(rest[i]) >= Cardinality(x)})
         IN SubSeq(rest, 1, n) \o <<x>> \o SubSeq(rest, n + 1, Len(rest))

\* _gen_groups: group_idx + 1 -> the ids of the graphs of the component (a set of
\* small ints, which Python iterates in ascending order).
_gen_groups(cc, graphs) ==
    [group_idx \in 1 .. Len(cc) |->
        LET members == SortedNodes(cc[group_idx])
        IN [m \in 1 .. Len(members) |-> graphs[members[m] + 1].id]]

\* _do_clustering up to the first pair whose comparison raises: the edges added
\* so far, the exception, and (when none is raised) the two groupings.
_do_clustering(graphs) ==
    LET num_graphs == Len(graphs)
        num_nodes == Len(graphs[1].nodes)
        ps == PairSeq(num_graphs)
        err(r) == pair_error(graphs[ps[r][1] + 1], graphs[ps[r][2] + 1])
        failing == {r \in DOMAIN ps : err(r) # NoError}
        stop == IF failing = {} THEN Len(ps) + 1 ELSE Min(failing)
        done == {ps[r] : r \in 1 .. stop - 1}
        Eseq == {{pr[1], pr[2]} : pr \in
                   {q \in done : seq_edge(graphs[q[1] + 1], graphs[q[2] + 1], num_nodes)}}
        Estruct == {{pr[1], pr[2]} : pr \in
                   {q \in done : struct_edge(graphs[q[1] + 1], graphs[q[2] + 1])}}
    IN [error |-> IF failing = {} THEN NoError ELSE err(stop),
        G_seq |-> Eseq,
        G_struct |-> Estruct,
        structural |-> _gen_groups(
            sorted_by_len_reverse(connected_components(num_graphs, Estruct)), graphs),
        sequence |-> _gen_groups(
            sorted_by_len_reverse(connected_components(num_graphs, Eseq)), graphs)]

(***************************************************************************)
(* find_protein_subgraphs and set_clustering.                              *)
(***************************************************************************)
RECURSIVE pooled(_, _)
\* all_graphs += self._find_subgraph_in_pdb(pdb_id), for pdb_id in self.support;
\* emitted[i] is the order in which the matcher emits the mappings of host i.
pooled(i, emitted) ==
    IF i = 0 THEN << >>
    ELSE pooled(i - 1, emitted) \o _find_subgraph_in_pdb(support[i], G, emitted[i])

\* The sorted list with graph.graph['id'] set.
with_ids(sorted) ==
    [i \in DOMAIN sorted |-> [sorted[i] EXCEPT !.id = unique_id(sorted[i], i - 1)]]

\* self.protein_subgraphs[unique_id] = graph, in the order of the list.
subgraph_dict(graphs) ==
    [id \in {graphs[i].id : i \in DOMAIN graphs} |->
        graphs[CHOOSE i \in DOMAIN graphs :
                  /\ graphs[i].id = id
                  /\ \A j \in DOMAIN graphs : graphs[j].id = id => j <= i]]

\* Mutant of new_total_support: the count is added to the host's entry.
new_total_support_added(emitted) ==
    [pdb_id \in DOMAIN total_support \cup {support[i].pdb_id : i \in DOMAIN support} |->
        LET i == CHOOSE j \in DOMAIN support : support[j].pdb_id = pdb_id
        IN IF pdb_id \in DOMAIN total_support
           THEN total_support[pdb_id] + _find_total_support(support[i], G, emitted[i])
           ELSE _find_total_support(support[i], G, emitted[i])]

\* self.total_support after every host was searched: _find_subgraph_in_pdb sets
\* the entry of each host of self.support and leaves any other entry alone.
new_total_support(emitted) ==
    [pdb_id \in DOMAIN total_support \cup {support[i].pdb_id : i \in DOMAIN support} |->
        IF \E i \in DOMAIN support : support[i].pdb_id = pdb_id
        THEN LET i == CHOOSE j \in DOMAIN support : support[j].pdb_id = pdb_id
             IN _find_total_support(support[i], G, emitted[i])
        ELSE total_support[pdb_id]]

RECURSIVE EmitOrders(_)
\* Every way the matcher may order the mappings of hosts 1..i.
EmitOrders(i) ==
    IF i = 0 THEN {<< >>}
    ELSE {Append(front, o) : front \in EmitOrders(i - 1),
                             o \in Perms(Monomorphisms(support[i], G))}

\* Mutant of set_clustering_result: the option is recorded before it is checked.
set_clustering_records_first(option, structural, sequence, old_groups, old_option) ==
    IF option = "structural"
    THEN IF structural = UnsetGroups
         THEN [groups |-> old_groups, option |-> old_option, error |-> "AttributeError"]
         ELSE [groups |-> structural, option |-> option, error |-> NoError]
    ELSE IF option = "sequence"
    THEN IF sequence = UnsetGroups
         THEN [groups |-> old_groups, option |-> old_option, error |-> "AttributeError"]
         ELSE [groups |-> sequence, option |-> option, error |-> NoError]
    ELSE [groups |-> old_groups, option |-> option, error |-> "Exception"]

\* set_clustering, as a function of the groupings it reads.
set_clustering_result(option, structural, sequence, old_groups, old_option) ==
    IF option = "structural"
    THEN IF structural = UnsetGroups
         THEN [groups |-> old_groups, option |-> old_option, error |-> "AttributeError"]
         ELSE [groups |-> structural, option |-> option, error |-> NoError]
    ELSE IF option = "sequence"
    THEN IF sequence = UnsetGroups
         THEN [groups |-> old_groups, option |-> old_option, error |-> "AttributeError"]
         ELSE [groups |-> sequence, option |-> option, error |-> NoError]
    ELSE [groups |-> old_groups, option |-> old_option, error |-> "Exception"]

find_protein_subgraphs(option, emitted) ==
    \E graphs \in {with_ids(sort_by_size(pooled(Len(support), emitted)))} :
    \E cl \in {IF Len(graphs) > 1 THEN _do_clustering(graphs) ELSE [error |-> NoError]} :
    LET sc == set_clustering_result(option, cl.structural, cl.sequence,
                                    << >>, clustering_option)
        single == <<[i \in DOMAIN graphs |-> graphs[i].id]>>
    IN /\ call' = [op |-> "find_protein_subgraphs", option |-> option,
                   emitted |-> emitted]
       /\ repeated' = (call = [op |-> "find_protein_subgraphs", option |-> option,
                               emitted |-> emitted])
       /\ protein_subgraphs' = subgraph_dict(graphs)
       /\ total_support' = new_total_support(emitted)
       /\ all_graphs' = graphs
       /\ IF Len(graphs) > 1
          THEN /\ G_seq' = cl.G_seq
               /\ G_struct' = cl.G_struct
               /\ IF cl.error # NoError
                  THEN /\ raised' = cl.error
                       /\ groups' = << >>
                       /\ UNCHANGED <<clustering_option, _structural_groups,
                                      _sequence_groups>>
                  ELSE /\ _structural_groups' = cl.structural
                       /\ _sequence_groups' = cl.sequence
                       /\ groups' = sc.groups
                       /\ clustering_option' = sc.option
                       /\ raised' = sc.error
          ELSE /\ G_seq' = {}
               /\ G_struct' = {}
               /\ groups' = single
               /\ clustering_option' = option
               /\ _structural_groups' = single
               /\ _sequence_groups' = single
               /\ raised' = NoError
       /\ UNCHANGED <<support, G, GM, patterns, seq_dist_calls>>

set_clustering(option) ==
    LET sc == set_clustering_result(option, _structural_groups, _sequence_groups,
                                    groups, clustering_option)
    IN /\ call' = [op |-> "set_clustering", option |-> option, emitted |-> << >>]
       /\ repeated' = FALSE
       /\ groups' = sc.groups
       /\ clustering_option' = sc.option
       /\ raised' = sc.error
       /\ UNCHANGED <<support, G, GM, total_support, protein_subgraphs,
                      _structural_groups, _sequence_groups, all_graphs,
                      G_seq, G_struct, patterns, seq_dist_calls>>

FindProteinSubgraphs ==
    \E option \in Options : \E emitted \in EmitOrders(Len(support)) :
        find_protein_subgraphs(option, emitted)

SetClustering == \E option \in Options : set_clustering(option)

(***************************************************************************)
(* The inputs: the pattern, the supporting hosts, and what the external    *)
(* matcher and superimposer return for each pair of occurrences.           *)
(***************************************************************************)
Positions == {NotAligned} \cup (0 .. MaxPos)
Weights == 1 .. MaxWeight
RmsValues == {RmsdThreshold, RmsdThreshold + 1}

\* Two residues joined by one edge: both of one type, or of two types.
PatternSame == [num_label |-> <<1, 1>>, edges |-> {{1, 2}}]
PatternMixed == [num_label |-> <<1, 2>>, edges |-> {{1, 2}}]

\* Every weighting of every subset of the candidate edges.
EdgeWeightings(candidates) == UNION {[es -> Weights] : es \in SUBSET candidates}

\* Hosts of residues of one type, all aligned, all with an alpha carbon; their
\* edges and edge weights vary, so the number of embeddings, the duplicates
\* among them and the ties of total weight vary.
PlainHost(pdb_id, nodes, weight) ==
    [pdb_id |-> pdb_id,
     num_label |-> [n \in nodes |-> 1],
     aligned |-> [n \in nodes |-> n],
     atoms |-> [n \in nodes |-> <<"N", "CA">>],
     weight |-> weight]

PlainSupports ==
    {<<PlainHost("A", 1 .. 3, wa), PlainHost("B", 1 .. 2, wb)>> :
        wa \in {w \in EdgeWeightings({{1, 2}, {2, 3}}) :
                   {2, 3} \in DOMAIN w => w[{2, 3}] = 1},
        wb \in {w \in EdgeWeightings({{1, 2}}) : \A e \in DOMAIN w : w[e] = 1}}

\* Hosts of residues of two types, so that no two embeddings share their nodes.
\* Three occurrences: two in A, one in B.
TripleSupport ==
    <<[pdb_id |-> "A",
       num_label |-> <<1, 2, 1>>,
       aligned |-> <<0, 1, 2>>,
       atoms |-> [n \in 1 .. 3 |-> <<"N", "CA">>],
       weight |-> [e \in {{1, 2}, {2, 3}} |-> IF 1 \in e THEN 1 ELSE 2]],
      [pdb_id |-> "B",
       num_label |-> <<1, 2>>,
       aligned |-> <<0, 1>>,
       atoms |-> [n \in 1 .. 2 |-> <<"N", "CA">>],
       weight |-> [e \in {{1, 2}} |-> 1]]>>

\* Two occurrences, one per host; the aligned positions and the atoms vary.
AtomLists == {<<"N", "CA">>, <<"N">>, <<"FE">>}

PairSupports ==
    {<<[pdb_id |-> "A",
        num_label |-> <<1, 2>>,
        aligned |-> <<a1, 1>>,
        atoms |-> <<<<"N", "CA">>, <<"N", "CA">>>>,
        weight |-> [e \in {{1, 2}} |-> 1]],
       [pdb_id |-> "B",
        num_label |-> <<1, 2>>,
        aligned |-> <<b1, b2>>,
        atoms |-> <<at, <<"N", "CA">>>>,
        weight |-> [e \in {{1, 2}} |-> 1]]>> :
        a1 \in {NotAligned, 0}, b1 \in Positions, b2 \in Positions, at \in AtomLists}

\* The keys of the occurrences the hosts of sup hold.
KeysOf(sup, g) ==
    UNION {{Key(_generate_protein_subgraph(m, sup[i], g)) :
               m \in Monomorphisms(sup[i], g)} : i \in DOMAIN sup}

\* One orientation of every pair of occurrences.
CanonPairs(sup, g) ==
    LET ks == CHOOSE s \in Perms(KeysOf(sup, g)) : TRUE
    IN {<<ks[i], ks[j]>> : i, j \in DOMAIN ks} \cap
       {pr \in {<<ks[i], ks[j]>> : i, j \in DOMAIN ks} :
           \E i, j \in DOMAIN ks : i < j /\ pr = <<ks[i], ks[j]>>}

InversePositions(p) == [q \in DOMAIN p |-> CHOOSE r \in DOMAIN p : p[r] = q]

\* The mappings from sg2 to sg1 are the inverses of those from sg1 to sg2, and
\* the superimposer's RMS is the same in both directions.
InverseAnswer(ans) ==
    [p \in {InversePositions(q) : q \in DOMAIN ans} |-> ans[InversePositions(p)]]

\* What the collaborators may answer for a pair of occurrences of k nodes: any
\* set of position mappings, each with an RMS.
Answers(k) == UNION {[ps -> RmsValues] : ps \in SUBSET Perms(1 .. k)}

\* The answers with no mapping or a single one.
AtMostOne(k) == {ans \in Answers(k) : Cardinality(DOMAIN ans) <= 1}

\* Every mapping found, every RMS at the threshold.
FullAnswer(k) == [p \in Perms(1 .. k) |-> RmsdThreshold]

GMTable(base) ==
    [pr \in DOMAIN base \cup {<<q[2], q[1]>> : q \in DOMAIN base} |->
        IF pr \in DOMAIN base THEN base[pr] ELSE InverseAnswer(base[<<pr[2], pr[1]>>])]

InitObject ==
    /\ total_support = << >>
    /\ protein_subgraphs = << >>
    /\ groups = << >>
    /\ clustering_option = Unset
    /\ _structural_groups = UnsetGroups
    /\ _sequence_groups = UnsetGroups
    /\ all_graphs = << >>
    /\ G_seq = {}
    /\ G_struct = {}
    /\ call = [op |-> "__init__", option |-> Unset, emitted |-> << >>]
    /\ raised = NoError
    /\ repeated = FALSE
    /\ seq_dist_calls = {}

Init ==
    /\ InitObject
    /\ patterns = << >>
    /\ \/ /\ G = PatternSame
          /\ support \in PlainSupports
          /\ GM = GMTable([pr \in CanonPairs(support, G) |-> FullAnswer(2)])
       \/ /\ G = PatternMixed
          /\ support \in PairSupports
          /\ \E base \in [CanonPairs(support, G) -> Answers(2)] : GM = GMTable(base)
       \/ /\ G = PatternMixed
          /\ support = TripleSupport
          /\ \E base \in [CanonPairs(support, G) -> AtMostOne(2)] : GM = GMTable(base)

Next == FindProteinSubgraphs \/ SetClustering

Spec == Init /\ [][Next]_vars

(***************************************************************************)
(* Properties.                                                             *)
(***************************************************************************)
ValidOptions == {"structural", "sequence"}

\* The state is the one a call of find_protein_subgraphs left.
AfterFind == call.op = "find_protein_subgraphs"

\* ... and the call returned.
FindCompleted == AfterFind /\ raised = NoError

\* Some call of find_protein_subgraphs has run: every host has its entry.
FindHasRun == DOMAIN total_support # {}

\* The places <<group id, index>> at which the grouping gr lists id.
PlacesOf(gr, id) ==
    {pl \in UNION {{<<g, m>> : m \in DOMAIN gr[g]} : g \in DOMAIN gr} :
        gr[pl[1]][pl[2]] = id}

Members(gr) == UNION {Range(gr[g]) : g \in DOMAIN gr}

IsPartition(gr, ids) ==
    /\ \A id \in ids : Cardinality(PlacesOf(gr, id)) = 1
    /\ Members(gr) \subseteq ids
    /\ DOMAIN gr = 1 .. Cardinality(DOMAIN gr)
    /\ \A g \in DOMAIN gr :
          (g + 1) \in DOMAIN gr => Len(gr[g]) >= Len(gr[g + 1])

\* C1: after find_protein_subgraphs completes, the structural groups and the
\* sequence groups each partition the keys of protein_subgraphs: every key is
\* listed exactly once, nothing else is listed, the group ids are 1..k and the
\* group sizes do not increase with the group id.
C1_GroupsPartition ==
    FindCompleted =>
        /\ IsPartition(_structural_groups, DOMAIN protein_subgraphs)
        /\ IsPartition(_sequence_groups, DOMAIN protein_subgraphs)

\* C1 witness: a completed call over three occurrences whose structural groups
\* have sizes 2 and 1, the larger group not holding the first occurrence (so the
\* components were reordered by size), and whose sequence groups are three.
C1_Witness ==
    /\ FindCompleted
    /\ Len(all_graphs) = 3
    /\ Len(_structural_groups) = 2
    /\ Len(_structural_groups[1]) = 2
    /\ all_graphs[1].id \notin Range(_structural_groups[1])
    /\ Len(_sequence_groups) = 3

\* C2 (as claimed): once find_protein_subgraphs has run, whatever calls
\* followed, clustering_option is 'structural' or 'sequence', groups is the
\* grouping that option selects, and the keys of protein_subgraphs are the
\* members of groups.
C2_OptionSelectsGroups ==
    FindHasRun =>
        /\ clustering_option \in ValidOptions
        /\ clustering_option = "structural" => groups = _structural_groups
        /\ clustering_option = "sequence" => groups = _sequence_groups
        /\ DOMAIN protein_subgraphs = Members(groups)

\* C3: a call of set_clustering with an option other than 'structural' and
\* 'sequence' raises, and leaves groups, clustering_option, both groupings,
\* protein_subgraphs and total_support as they were.
C3_InvalidOptionNoChange ==
    [][(call'.op = "set_clustering" /\ call'.option \notin ValidOptions) =>
          /\ raised' = "Exception"
          /\ UNCHANGED <<groups, clustering_option, _structural_groups,
                         _sequence_groups, protein_subgraphs, total_support>>]_vars

\* C3 witness: the invalid call was made on an object holding two groups under
\* the sequence option, and raised.
C3_Witness ==
    /\ call.op = "set_clustering"
    /\ call.option \notin ValidOptions
    /\ raised = "Exception"
    /\ clustering_option = "sequence"
    /\ Len(groups) = 2
    /\ groups = _sequence_groups

SameResults ==
    /\ protein_subgraphs' = protein_subgraphs
    /\ _structural_groups' = _structural_groups
    /\ _sequence_groups' = _sequence_groups
    /\ total_support' = total_support

\* C4 (as claimed): a second call of find_protein_subgraphs with the same option
\* on the same support leaves protein_subgraphs, both groupings and
\* total_support as the first call left them, in whatever order the matcher
\* emits the mappings in either call.
C4_IdempotentAnyOrder ==
    [][(AfterFind /\ call'.op = "find_protein_subgraphs"
          /\ call'.option = call.option) => SameResults]_vars

\* C4 (amended): the second call leaves them as the first did when the matcher
\* emits every host's mappings in the same order in both calls; total_support
\* is the same in whatever order they are emitted.
C4_IdempotentSameOrder ==
    [][(AfterFind /\ call'.op = "find_protein_subgraphs"
          /\ call'.option = call.option) =>
          /\ total_support' = total_support
          /\ call'.emitted = call.emitted => SameResults]_vars

\* C4 witness: the call was repeated with the same option and matcher order, on
\* hosts with duplicate embeddings and two occurrences of equal total weight.
C4_Witness ==
    /\ repeated
    /\ raised = NoError
    /\ Len(call.emitted[1]) > total_support["A"]
    /\ \E i, j \in DOMAIN all_graphs :
          i < j /\ size(all_graphs[i]) = size(all_graphs[j])

HostIds(pdb_id) == {id \in DOMAIN protein_subgraphs :
                       protein_subgraphs[id].pdb_id = pdb_id}

\* C5 (as claimed): after find_protein_subgraphs, total_support[host] is the
\* number of embeddings the matcher emitted for the host, duplicates included.
C5_TotalSupportPreDedup ==
    AfterFind =>
        \A i \in DOMAIN support :
            total_support[support[i].pdb_id] = Len(call.emitted[i])

\* C5 (amended): total_support[host] is the number of the host's occurrences
\* that survived deduplication, which is the number of its entries in
\* protein_subgraphs and the number of distinct degree dicts among its
\* embeddings; it is at most the number of embeddings.
C5_TotalSupportPostDedup ==
    AfterFind =>
        \A i \in DOMAIN support :
            LET pdb_id == support[i].pdb_id
                dds == {degree_dict(_generate_protein_subgraph(m, support[i], G)) :
                           m \in Range(call.emitted[i])}
            IN /\ total_support[pdb_id] = Cardinality(HostIds(pdb_id))
               /\ total_support[pdb_id] = Cardinality(dds)
               /\ total_support[pdb_id] <= Len(call.emitted[i])

\* C5 witness: host A had four embeddings, two of them duplicates.
C5_Witness ==
    /\ AfterFind
    /\ Len(call.emitted[1]) = 4
    /\ total_support["A"] = 2
    /\ Cardinality(HostIds("A")) = 2

PoolPairs == {pr \in (DOMAIN all_graphs) \X (DOMAIN all_graphs) : pr[1] < pr[2]}

\* C6 (as claimed): when the matcher finds no mapping between two of the pooled
\* occurrences (and no comparison fails otherwise), clustering raises nothing
\* for it: the pair has no edge in either graph and both groupings partition
\* the occurrences.
C6_NoIsomorphismNoError ==
    (/\ AfterFind
     /\ Len(all_graphs) > 1
     /\ \A pr \in PoolPairs :
           pair_error(all_graphs[pr[1]], all_graphs[pr[2]]) # "TypeError")
    => /\ raised # "ValueError"
       /\ IsPartition(_structural_groups, DOMAIN protein_subgraphs)
       /\ IsPartition(_sequence_groups, DOMAIN protein_subgraphs)
       /\ \A pr \in PoolPairs :
             subgraph_isomorphisms(all_graphs[pr[1]], all_graphs[pr[2]]) = {} =>
                 /\ {pr[1] - 1, pr[2] - 1} \notin G_seq
                 /\ {pr[1] - 1, pr[2] - 1} \notin G_struct

\* _do_clustering returned in the last call of find_protein_subgraphs.
ClusteringCompleted ==
    AfterFind /\ Len(all_graphs) > 1 /\ raised \in {NoError, "Exception"}

\* C7: when _do_clustering returns, for every pair i < j of pooled occurrences
\* the sequence graph has the edge (i, j) iff some mapping has a sequence
\* distance below the number of pattern nodes, and the structural graph has it
\* iff some mapping has an RMSD of at most 0.5: each minimum is taken over all
\* the mappings on its own.
C7_EdgeThresholds ==
    ClusteringCompleted =>
        \A pr \in PoolPairs :
            LET sg1 == all_graphs[pr[1]]
                sg2 == all_graphs[pr[2]]
                maps == subgraph_isomorphisms(sg1, sg2)
                k == Cardinality(DOMAIN G.num_label)
            IN /\ {pr[1] - 1, pr[2] - 1} \in G_seq <=>
                     \E p \in maps :
                         _subgraph_seq_dist(sg1, sg2, MappingDict(sg1, sg2, p)) < k
               /\ {pr[1] - 1, pr[2] - 1} \in G_struct <=>
                     \E p \in maps : _subgraph_rmsd(sg1, sg2, p) <= RmsdThreshold

\* C7 witness: a pair with two mappings, one at RMSD exactly 0.5 with a sequence
\* distance of k or more, the other above 0.5 with a sequence distance below k:
\* the pair is connected in both graphs.
C7_Witness ==
    /\ ClusteringCompleted
    /\ \E pr \in PoolPairs :
          LET sg1 == all_graphs[pr[1]]
              sg2 == all_graphs[pr[2]]
              k == Cardinality(DOMAIN G.num_label)
          IN /\ {pr[1] - 1, pr[2] - 1} \in G_seq \cap G_struct
             /\ \E p, q \in subgraph_isomorphisms(sg1, sg2) :
                   /\ _subgraph_rmsd(sg1, sg2, p) = RmsdThreshold
                   /\ _subgraph_seq_dist(sg1, sg2, MappingDict(sg1, sg2, p)) >= k
                   /\ _subgraph_rmsd(sg1, sg2, q) > RmsdThreshold
                   /\ _subgraph_seq_dist(sg1, sg2, MappingDict(sg1, sg2, q)) < k

\* The occurrence sg as _find_subgraph_in_pdb returned it, before it got its id.
WithoutId(sg) == [sg EXCEPT !.id = Unset]

\* The position of the occurrence sg (without id) in all_graphs.
PoolIndex(sg) == CHOOSE r \in DOMAIN all_graphs : WithoutId(all_graphs[r]) = sg

\* C9: after find_protein_subgraphs, the occurrences of a host are those of its
\* embeddings that no embedding emitted earlier for the same host equals in
\* degree dict: their degree dicts are pairwise distinct, of embeddings with one
\* degree dict the first emitted is kept (kept occurrences of equal weight stay
\* in emission order), and what another host emitted removes none of them.
C9_FirstOfEachDegreeDictKept ==
    AfterFind =>
        \A i \in DOMAIN support :
            LET e == call.emitted[i]
                occ(j) == _generate_protein_subgraph(e[j], support[i], G)
                first == {j \in DOMAIN e :
                             \A j2 \in 1 .. j - 1 : degree_dict(occ(j2)) # degree_dict(occ(j))}
                mine == {r \in DOMAIN all_graphs :
                            all_graphs[r].pdb_id = support[i].pdb_id}
            IN /\ {WithoutId(all_graphs[r]) : r \in mine} = {occ(j) : j \in first}
               /\ Cardinality(mine) = Cardinality(first)
               /\ \A r1, r2 \in mine :
                     r1 # r2 => degree_dict(all_graphs[r1]) # degree_dict(all_graphs[r2])
               /\ \A j1, j2 \in first :
                     (j1 < j2 /\ size(occ(j1)) = size(occ(j2)))
                         => PoolIndex(occ(j1)) < PoolIndex(occ(j2))

\* C9 witness: host A emitted a duplicate of its first embedding after an
\* embedding of equal weight with another degree dict, and host B holds an
\* occurrence whose degree dict equals that of an occurrence of A.
C9_Witness ==
    /\ AfterFind
    /\ Len(call.emitted[1]) = 4
    /\ LET e == call.emitted[1]
           occ(j) == _generate_protein_subgraph(e[j], support[1], G)
       IN /\ degree_dict(occ(1)) # degree_dict(occ(2))
          /\ degree_dict(occ(1)) = degree_dict(occ(3))
          /\ size(occ(1)) = size(occ(2))
    /\ \E r1, r2 \in DOMAIN all_graphs :
          /\ all_graphs[r1].pdb_id = "A"
          /\ all_graphs[r2].pdb_id = "B"
          /\ degree_dict(all_graphs[r1]) = degree_dict(all_graphs[r2])

\* The ranks r of 1..n for which id is the host id of its occurrence, "_", r.
RanksOf(id) ==
    {r \in 1 .. Len(all_graphs) :
        id = protein_subgraphs[id].pdb_id \o "_" \o str(r)}

\* C10: after find_protein_subgraphs over n pooled occurrences, protein_subgraphs
\* has n entries; every id is the host id of its occurrence, "_" and a rank;
\* every rank of 1..n is the rank of exactly one id; and the total edge weight
\* does not decrease with the rank.
C10_IdsRankedByWeight ==
    AfterFind =>
        /\ Cardinality(DOMAIN protein_subgraphs) = Len(all_graphs)
        /\ \A id \in DOMAIN protein_subgraphs :
              /\ Cardinality(RanksOf(id)) = 1
              /\ protein_subgraphs[id].id = id
        /\ \A r \in 1 .. Len(all_graphs) :
              Cardinality({id \in DOMAIN protein_subgraphs : r \in RanksOf(id)}) = 1
        /\ \A x, y \in DOMAIN protein_subgraphs :
              (\E rx \in RanksOf(x), ry \in RanksOf(y) : rx < ry)
                  => size(protein_subgraphs[x]) <= size(protein_subgraphs[y])

\* C10 witness: three occurrences, the heaviest, found first in host A, ranked
\* last and the one of host B ranked between the two of A.
C10_Witness ==
    /\ AfterFind
    /\ DOMAIN protein_subgraphs = {"A_1", "B_2", "A_3"}
    /\ size(protein_subgraphs["A_3"]) > size(protein_subgraphs["B_2"])
    /\ LET first == _generate_protein_subgraph(call.emitted[1][1], support[1], G)
       IN WithoutId(protein_subgraphs["A_3"]) = first

(***************************************************************************)
(* The ordering of SubgraphPattern objects.  An object p:                  *)
(*   p.G               the identity of its graph object (a copy of its own);*)
(*   p.support_number  len(support);                                       *)
(*   p.smiles          str(write_graph_smiles(p.G)), a list of characters; *)
(*   p.size            p.G.size(weight="num_label").                       *)
(***************************************************************************)
MaxPatterns == 3

Ord(c) == CASE c = "W" -> 1 [] c = "Y" -> 2

RECURSIVE StrLess(_, _)
\* Python's < on strings: by the first character that differs, a proper prefix first.
StrLess(s, t) ==
    IF t = << >> THEN FALSE
    ELSE IF s = << >> THEN TRUE
    ELSE IF Head(s) # Head(t) THEN Ord(Head(s)) < Ord(Head(t))
    ELSE StrLess(Tail(s), Tail(t))

\* SubgraphPattern.__lt__
__lt__(self, other) ==
    IF self.support_number # other.support_number
    THEN self.support_number < other.support_number
    ELSE IF self.smiles # other.smiles
    THEN StrLess(self.smiles, other.smiles)
    ELSE self.size < other.size

\* SubgraphPattern.__eq__: self.G == other.G, which for networkx graphs (no
\* __eq__ of their own) is the identity of the two graph objects.
__eq__(self, other) == self.G = other.G

Smiles == {<<"W">>, <<"W", "Y">>, <<"Y">>}

\* SubgraphPattern.__init__: self.G = G.copy() is a graph object of its own.
__init__(support_number, smiles, num_label_size) ==
    /\ Len(patterns) < MaxPatterns
    /\ patterns' = Append(patterns,
                          [G |-> Len(patterns) + 1,
                           support_number |-> support_number,
                           smiles |-> smiles,
                           size |-> num_label_size])
    /\ UNCHANGED <<support, G, GM, total_support, protein_subgraphs, groups,
                   clustering_option, _structural_groups, _sequence_groups,
                   all_graphs, G_seq, G_struct, call, raised, repeated,
                   seq_dist_calls>>

NewPattern ==
    \E support_number \in 1 .. 2, smiles \in Smiles, num_label_size \in 1 .. 2 :
        __init__(support_number, smiles, num_label_size)

InitOrder ==
    /\ InitObject
    /\ support = << >>
    /\ G = PatternSame
    /\ GM = << >>
    /\ patterns = << >>

SpecOrder == InitOrder /\ [][NewPattern]_vars

\* C8 (as claimed): of A < B, A == B, B < A exactly one holds for any two
\* SubgraphPattern objects, and < is transitive.
C8_StrictTotalOrder ==
    /\ \A a, b \in Range(patterns) :
          Cardinality({x \in {1, 2, 3} :
                          \/ x = 1 /\ __lt__(a, b)
                          \/ x = 2 /\ __eq__(a, b)
                          \/ x = 3 /\ __lt__(b, a)}) = 1
    /\ \A a, b, c \in Range(patterns) :
          (__lt__(a, b) /\ __lt__(b, c)) => __lt__(a, c)

(***************************************************************************)
(* _subgraph_seq_dist on its own.  Two hosts hold one occurrence each of   *)
(* the pattern of two residues of one type; every residue is aligned at a  *)
(* position of 0..MaxPos or carries the aligned_resnum "X".  The function  *)
(* is called on the two occurrences in either order, under either mapping. *)
(***************************************************************************)
AlignedValues == {NotAligned} \cup Positions

SeqHost(pdb_id, aligned) ==
    [pdb_id |-> pdb_id,
     num_label |-> <<1, 1>>,
     aligned |-> aligned,
     atoms |-> <<<<"N", "CA">>, <<"N", "CA">>>>,
     weight |-> [e \in {{1, 2}} |-> 1]]

SeqSupports ==
    {<<SeqHost("A", a), SeqHost("B", b)>> :
        a \in [1 .. 2 -> AlignedValues], b \in [1 .. 2 -> AlignedValues]}

\* The occurrence of the pattern in the host h (its embeddings give one graph).
Occurrence(h) ==
    _generate_protein_subgraph(CHOOSE m \in Monomorphisms(h, G) : TRUE, h, G)

\* One call _subgraph_seq_dist(sg1, sg2, mapping), the mapping given by
\* positions: what it returns, or the TypeError of subtracting "X" from an int.
seq_dist_call(sg1, sg2, p) ==
    LET mapping == MappingDict(sg1, sg2, p)
        fails == _seq_dist_raises(sg1, sg2, mapping)
    IN /\ seq_dist_calls' = seq_dist_calls \cup
              {[sg1 |-> Key(sg1), sg2 |-> Key(sg2), p |-> p,
                error |-> IF fails THEN "TypeError" ELSE NoError,
                total_dist |-> IF fails THEN 0
                               ELSE _subgraph_seq_dist(sg1, sg2, mapping)]}
       /\ call' = [op |-> "_subgraph_seq_dist", option |-> Unset, emitted |-> << >>]
       /\ raised' = IF fails THEN "TypeError" ELSE NoError
       /\ repeated' = FALSE
       /\ UNCHANGED <<support, G, GM, total_support, protein_subgraphs, groups,
                      clustering_option, _structural_groups, _sequence_groups,
                      all_graphs, G_seq, G_struct, patterns>>

SubgraphSeqDist ==
    \E i \in DOMAIN support, j \in DOMAIN support, p \in Perms(1 .. 2) :
        /\ i # j
        /\ seq_dist_call(Occurrence(support[i]), Occurrence(support[j]), p)

InitSeqDist ==
    /\ InitObject
    /\ support \in SeqSupports
    /\ G = PatternSame
    /\ GM = << >>
    /\ patterns = << >>

SpecSeqDist == InitSeqDist /\ [][SubgraphSeqDist]_vars

\* C11 (as claimed): every call of _subgraph_seq_dist returns a number, also
\* when a node of either occurrence is not aligned, and the call on (O1, O2, m)
\* returns what the call on (O2, O1, inverse of m) returns.
C11_SeqDistSymmetric ==
    /\ \A c \in seq_dist_calls : c.error = NoError
    /\ \A c, d \in seq_dist_calls :
          (c.sg1 = d.sg2 /\ c.sg2 = d.sg1 /\ d.p = InversePositions(c.p)) =>
              c.total_dist = d.total_dist

====
